---------------------------- MODULE Spec2Model ----------------------------
(***************************************************************************)
(* A model of the read-buf crate: BorrowBuf / BorrowCursor (src/lib.rs)    *)
(* and the Vec<u8> implementation of OwnedBuf / OwnedCursor (src/owned.rs).*)
(*                                                                         *)
(* A storage slot (MaybeUninit<u8>) holds a byte or is undefined.  Every   *)
(* operation of the crate is a function from the state it reads to the     *)
(* state it leaves, together with the way it ends ("ok" or a panic); the   *)
(* actions apply these functions to the one buffer a behaviour drives.     *)
(* `unsafe` functions are modelled as the code executes them, whatever the *)
(* caller passes: the crate does not check their arguments.                *)
(***************************************************************************)
EXTENDS Integers, Sequences, FiniteSets

VARIABLES
    which,      \* the buffer this behaviour drives: "BorrowBuf" or "Vec"
    borrowbuf,  \* the BorrowBuf: [buf, filled, initialized]
    cursors,    \* live BorrowCursor handles: 0 none, 1 from unfilled(), more after plone()
    vec,        \* the Vec<u8>: [buf, len]; Len(buf) is its capacity
    vcursors,   \* live VecCursor handles, innermost last: each [initialized, start]
    last        \* the last call: [op, n, outcome], n its count or index

vars == <<which, borrowbuf, cursors, vec, vcursors, last>>

---------------------------------------------------------------------------
\* Bounds of the model.

\* the largest capacity of a buffer
MaxCap == 2
\* how many clones (plone / clone) may be stacked on a cursor
MaxClones == 1
\* the byte values written by callers; ensure_init writes 0
Bytes == {0, 1}
\* the largest count passed to a call, and the largest value a counter takes:
\* one past the largest capacity
Limit == MaxCap + 1

---------------------------------------------------------------------------
\* Storage.

\* an undefined MaybeUninit<u8>
Undef == -1
Slot == Bytes \cup {Undef}

Max(a, b) == IF a >= b THEN a ELSE b

RECURSIVE SeqsUpTo(_, _)
SeqsUpTo(S, n) ==
    IF n = 0 THEN {<<>>}
    ELSE LET shorter == SeqsUpTo(S, n - 1)
         IN  shorter \cup {Append(s, x) : s \in {t \in shorter : Len(t) = n - 1}, x \in S}

\* n slots, all holding v
Fill(n, v) == [i \in 1..n |-> v]

\* the slots [from, to) of a storage, 0-based as in the source
Slice(buf, from, to) == SubSeq(buf, from + 1, to)
\* &buf[from..to] panics unless from <= to <= buf.len()
SliceOk(buf, from, to) == from <= to /\ to <= Len(buf)

\* storage with data copied to the slots starting at 0-based offset at
WriteAt(buf, at, data) ==
    [i \in 1..Len(buf) |->
        IF at < i /\ i <= at + Len(data) THEN data[i - at] ELSE buf[i]]

Defined(seq) == \A i \in 1..Len(seq) : seq[i] # Undef

---------------------------------------------------------------------------
\* BorrowBuf (src/lib.rs).  s is a record [buf, filled, initialized].

From_slice(slice) == [buf |-> slice, filled |-> 0, initialized |-> Len(slice)]

From_uninit(buf) == [buf |-> buf, filled |-> 0, initialized |-> 0]

BorrowBuf_capacity(s) == Len(s.buf)

BorrowBuf_filled_ok(s) == SliceOk(s.buf, 0, s.filled)
BorrowBuf_filled(s) == Slice(s.buf, 0, s.filled)

BorrowBuf_len(s) == s.filled

BorrowBuf_init_len(s) == s.initialized

\* a clear that also forgets what is initialized
BorrowBuf_clear_resets_init(s) == [s EXCEPT !.filled = 0, !.initialized = 0]
BorrowBuf_clear(s) == [s EXCEPT !.filled = 0]

\* a set_init that stores n instead of raising to it
BorrowBuf_set_init_assigns(s, n) == [s EXCEPT !.initialized = n]
BorrowBuf_set_init(s, n) == [s EXCEPT !.initialized = Max(s.initialized, n)]

---------------------------------------------------------------------------
\* BorrowCursor (src/lib.rs): a handle on the BorrowBuf s, with no state of
\* its own.

\* capacity() is a usize subtraction: it is defined when filled <= capacity
\* (otherwise a debug build panics and a release build wraps around)
BorrowCursor_capacity_ok(s) == s.filled <= BorrowBuf_capacity(s)
BorrowCursor_capacity(s) == BorrowBuf_capacity(s) - s.filled

BorrowCursor_init_ref_ok(s) == SliceOk(s.buf, s.filled, s.initialized)
BorrowCursor_init_ref(s) == Slice(s.buf, s.filled, s.initialized)

BorrowCursor_uninit_mut_ok(s) == SliceOk(s.buf, s.initialized, Len(s.buf))
BorrowCursor_uninit_mut(s) == Slice(s.buf, s.initialized, Len(s.buf))

BorrowCursor_as_mut_ok(s) == SliceOk(s.buf, s.filled, Len(s.buf))
BorrowCursor_as_mut(s) == Slice(s.buf, s.filled, Len(s.buf))

\* an advance that leaves initialized behind filled
BorrowCursor_advance_keeps_init(s, n) == [s EXCEPT !.filled = s.filled + n]
\* advance checks nothing: it cannot fail
BorrowCursor_advance_outcome(s, n) == "ok"
\* The counters are usize, and `filled += n` is a usize addition.  A count
\* n < 0 stands for the usize 2^64 + n (its two's complement), taken only
\* with filled + n >= 0, the case in which the addition overflows: a build
\* without overflow checks wraps to filled + n, a build with them panics at
\* the addition.
BorrowCursor_advance_outcomes(s, n) ==
    IF n < 0 THEN {BorrowCursor_advance_outcome(s, n), "overflow"}
    ELSE {BorrowCursor_advance_outcome(s, n)}
\* an advance that assigns the count instead of adding it
BorrowCursor_advance_assigns(s, n) ==
    [s EXCEPT !.filled = n, !.initialized = Max(s.initialized, n)]
BorrowCursor_advance(s, n) ==
    LET f == s.filled + n
    IN  [s EXCEPT !.filled = f, !.initialized = Max(s.initialized, f)]

\* an ensure_init that zeroes as_mut() instead of uninit_mut()
BorrowCursor_ensure_init_from_filled(s) ==
    IF SliceOk(s.buf, s.initialized, Len(s.buf))
    THEN [s EXCEPT
            !.buf = WriteAt(s.buf, s.filled, Fill(Len(s.buf) - s.filled, 0)),
            !.initialized = Len(s.buf)]
    ELSE s
\* uninit_mut() slices buf[initialized..], which panics when initialized is
\* past the end; nothing has been written by then
BorrowCursor_ensure_init_outcome(s) ==
    IF BorrowCursor_uninit_mut_ok(s) THEN "ok" ELSE "index"
BorrowCursor_ensure_init(s) ==
    IF BorrowCursor_ensure_init_outcome(s) = "ok"
    THEN [s EXCEPT
            !.buf = WriteAt(s.buf, s.initialized,
                            Fill(Len(s.buf) - s.initialized, 0)),
            !.initialized = BorrowBuf_capacity(s)]
    ELSE s

\* a cursor set_init that counts n from the start of the buffer
BorrowCursor_set_init_absolute(s, n) ==
    [s EXCEPT !.initialized = Max(s.initialized, n)]
BorrowCursor_set_init(s, n) ==
    [s EXCEPT !.initialized = Max(s.initialized, s.filled + n)]

\* an append that commits the bytes without recording them as initialized
BorrowCursor_append_skips_set_init(s, data) ==
    IF s.filled <= Len(s.buf) /\ Len(s.buf) - s.filled >= Len(data)
    THEN [s EXCEPT !.buf = WriteAt(s.buf, s.filled, data),
                   !.filled = s.filled + Len(data)]
    ELSE s
\* an append that copies into uninit_mut() instead of as_mut()
BorrowCursor_append_at_initialized(s, data) ==
    IF s.filled <= Len(s.buf) /\ Len(s.buf) - s.filled >= Len(data)
    THEN [s EXCEPT !.buf = WriteAt(s.buf, s.initialized, data),
                   !.initialized = Max(s.initialized, s.filled + Len(data)),
                   !.filled = s.filled + Len(data)]
    ELSE s
\* an append that copies what fits before it checks the capacity
BorrowCursor_append_partial(s, data) ==
    IF s.filled <= Len(s.buf) /\ Len(s.buf) - s.filled >= Len(data)
    THEN [s EXCEPT !.buf = WriteAt(s.buf, s.filled, data),
                   !.initialized = Max(s.initialized, s.filled + Len(data)),
                   !.filled = s.filled + Len(data)]
    ELSE [s EXCEPT !.buf = WriteAt(s.buf, s.filled, data)]

\* How append ends.  With filled past the capacity, capacity() overflows: a
\* debug build panics there ("overflow"); a release build wraps to a huge
\* value, passes the assertion and panics slicing buf[filled..] ("index").
BorrowCursor_append_outcomes(s, data) ==
    IF ~BorrowCursor_capacity_ok(s) THEN {"overflow", "index"}
    ELSE IF ~(BorrowCursor_capacity(s) >= Len(data)) THEN {"assert"}
    ELSE {"ok"}
BorrowCursor_append(s, data) ==
    IF BorrowCursor_append_outcomes(s, data) = {"ok"}
    THEN LET written == [s EXCEPT !.buf = WriteAt(s.buf, s.filled, data)]
             inited == BorrowCursor_set_init(written, Len(data))
         IN  [inited EXCEPT !.filled = inited.filled + Len(data)]
    ELSE s

\* The caller writing through a view: slot k of the view takes v.
\* init_mut() is &mut [u8]: only bytes can be stored.  uninit_mut() and
\* as_mut() are &mut [MaybeUninit<u8>]: a slot can also be de-initialised.
ViewWrite_outcome(ok, view, k) ==
    IF ~ok THEN "index" ELSE IF k >= Len(view) THEN "index" ELSE "ok"

BorrowCursor_init_mut_write_outcome(s, k) ==
    ViewWrite_outcome(BorrowCursor_init_ref_ok(s), BorrowCursor_init_ref(s), k)
BorrowCursor_init_mut_write(s, k, v) ==
    IF BorrowCursor_init_mut_write_outcome(s, k) = "ok"
    THEN [s EXCEPT !.buf = WriteAt(s.buf, s.filled + k, <<v>>)]
    ELSE s

BorrowCursor_uninit_mut_write_outcome(s, k) ==
    ViewWrite_outcome(BorrowCursor_uninit_mut_ok(s), BorrowCursor_uninit_mut(s), k)
\* an uninit_mut() view that starts at filled, as as_mut() does
BorrowCursor_uninit_mut_write_from_filled(s, k, v) ==
    IF BorrowCursor_uninit_mut_write_outcome(s, k) = "ok"
    THEN [s EXCEPT !.buf = WriteAt(s.buf, s.filled + k, <<v>>)]
    ELSE s
BorrowCursor_uninit_mut_write(s, k, v) ==
    IF BorrowCursor_uninit_mut_write_outcome(s, k) = "ok"
    THEN [s EXCEPT !.buf = WriteAt(s.buf, s.initialized + k, <<v>>)]
    ELSE s

\* an as_mut() view that starts at the start of the buffer
BorrowCursor_as_mut_write_at_start(s, k, v) ==
    IF SliceOk(s.buf, s.filled, Len(s.buf)) /\ k < Len(s.buf) - s.filled
    THEN [s EXCEPT !.buf = WriteAt(s.buf, k, <<v>>)]
    ELSE s
BorrowCursor_as_mut_write_outcome(s, k) ==
    ViewWrite_outcome(BorrowCursor_as_mut_ok(s), BorrowCursor_as_mut(s), k)
BorrowCursor_as_mut_write(s, k, v) ==
    IF BorrowCursor_as_mut_write_outcome(s, k) = "ok"
    THEN [s EXCEPT !.buf = WriteAt(s.buf, s.filled + k, <<v>>)]
    ELSE s

\* The caller filling the start of a view slot by slot: slot k takes data[k+1].
RECURSIVE as_mut_fill(_, _)
as_mut_fill(s, data) ==
    IF data = <<>> THEN s
    ELSE BorrowCursor_as_mut_write(as_mut_fill(s, SubSeq(data, 1, Len(data) - 1)),
                                   Len(data) - 1, data[Len(data)])

RECURSIVE uninit_mut_fill(_, _)
uninit_mut_fill(s, data) ==
    IF data = <<>> THEN s
    ELSE BorrowCursor_uninit_mut_write(uninit_mut_fill(s, SubSeq(data, 1, Len(data) - 1)),
                                       Len(data) - 1, data[Len(data)])

\* tests::read, for any data in place of [0, 1, 2, 3]: the bytes are stored
\* through as_mut() and committed by advance.  Indexing the view past its end
\* panics, after the stores that fitted and before advance.
read_outcome(s, data) ==
    IF ~BorrowCursor_as_mut_ok(s) THEN "index"
    ELSE IF Len(data) > Len(BorrowCursor_as_mut(s)) THEN "index"
    ELSE "ok"
read(s, data) ==
    IF ~BorrowCursor_as_mut_ok(s) THEN s
    ELSE IF Len(data) > Len(BorrowCursor_as_mut(s))
         THEN as_mut_fill(s, SubSeq(data, 1, Len(BorrowCursor_as_mut(s))))
    ELSE BorrowCursor_advance(as_mut_fill(s, data), Len(data))

\* tests::read_buf, for any two data: p = buf.plone(); read(p); read(buf).
\* The plone is a BorrowCursor over the same BorrowBuf (plone returns
\* BorrowCursor { buf: self.buf }), so the second read starts from the state
\* the first one left.  A panic in the first read ends read_buf.
read_buf_outcome(s, d1, d2) ==
    IF read_outcome(s, d1) # "ok" THEN read_outcome(s, d1)
    ELSE read_outcome(read(s, d1), d2)
\* a read_buf whose plone works on a copy: what it commits is lost
read_buf_on_copy(s, d1, d2) == read(s, d2)
read_buf(s, d1, d2) ==
    IF read_outcome(s, d1) # "ok" THEN read(s, d1)
    ELSE read(read(s, d1), d2)

---------------------------------------------------------------------------
\* impl OwnedBuf for Vec<u8> (src/owned.rs).  v is a record [buf, len]: buf is
\* the allocation, Len(buf) its capacity, len the Vec's length.

Vec_capacity(v) == Len(v.buf)

Vec_len(v) == v.len

Vec_init_len(v) == v.len

Vec_filled(v) == Slice(v.buf, 0, v.len)

Vec_unfilled_from_zero(v) == [initialized |-> 0, start |-> 0]
Vec_unfilled(v) == [initialized |-> v.len, start |-> v.len]

\* the store grows: Vec::reserve(additional) reallocates when the spare
\* capacity is too small, keeping the filled bytes; the new spare capacity
\* holds nothing defined
Vec_reserve(v, additional) ==
    IF Vec_capacity(v) - Vec_len(v) >= additional
    THEN v
    ELSE [v EXCEPT !.buf = Vec_filled(v) \o Fill(additional, Undef)]

Vec_clear(v) == [v EXCEPT !.len = 0]

Vec_set_init(v, n) == [v EXCEPT !.len = Max(v.len, n)]

\* Vec::spare_capacity_mut: the slots [len, capacity)
spare_capacity_mut(v) == Slice(v.buf, v.len, Len(v.buf))

---------------------------------------------------------------------------
\* impl OwnedCursor for VecCursor (src/owned.rs).  c is the cursor's own
\* state, a record [initialized, start]; v is the Vec it borrows.

VecCursor_clone_counts_from_clone(c) == [c EXCEPT !.start = vec.len]
VecCursor_clone(c) == [initialized |-> c.initialized, start |-> c.start]

VecCursor_capacity(v) == Vec_capacity(v) - v.len

VecCursor_written(v, c) == v.len - c.start

VecCursor_init_ref_ok(v, c) == c.initialized <= Len(spare_capacity_mut(v))
VecCursor_init_ref(v, c) == Slice(spare_capacity_mut(v), 0, c.initialized)

VecCursor_uninit_mut_ok(v, c) == c.initialized <= Len(spare_capacity_mut(v))
VecCursor_uninit_mut(v, c) ==
    Slice(spare_capacity_mut(v), c.initialized, Len(spare_capacity_mut(v)))

VecCursor_as_mut(v) == spare_capacity_mut(v)

\* an advance that sets the length to n
VecCursor_advance_sets_len(v, n) == [v EXCEPT !.len = n]
VecCursor_advance(v, n) == [v EXCEPT !.len = v.len + n]

\* uninit_mut() slices spare[initialized..], which panics when initialized
\* is past the spare capacity; nothing has been written by then
VecCursor_ensure_init_outcome(v, c) ==
    IF VecCursor_uninit_mut_ok(v, c) THEN "ok" ELSE "index"
\* the Vec after ensure_init
VecCursor_ensure_init_vec(v, c) ==
    IF VecCursor_ensure_init_outcome(v, c) = "ok"
    THEN [v EXCEPT !.buf = WriteAt(v.buf, v.len + c.initialized,
                                   Fill(Len(VecCursor_uninit_mut(v, c)), 0))]
    ELSE v
\* the cursor after ensure_init
VecCursor_ensure_init(v, c) ==
    IF VecCursor_ensure_init_outcome(v, c) = "ok"
    THEN [c EXCEPT !.initialized = Vec_capacity(v)]
    ELSE c

VecCursor_set_init(c, n) == [c EXCEPT !.initialized = Max(c.initialized, n)]

VecCursor_append_outcome(v, data) ==
    IF Len(data) <= Len(spare_capacity_mut(v)) THEN "ok" ELSE "assert"
VecCursor_append(v, data) ==
    IF VecCursor_append_outcome(v, data) = "ok"
    THEN VecCursor_advance([v EXCEPT !.buf = WriteAt(v.buf, v.len, data)],
                           Len(data))
    ELSE v

---------------------------------------------------------------------------
\* The state machine: one buffer per behaviour, driven by any caller.

\* the last call: its name, its count argument, how it ended, and the cursor
\* handle it was made through (0 for a call on the buffer itself; handle 1 is
\* the cursor unfilled() returned, handle h + 1 the clone made from handle h)
Call(op, n, outcome) == [op |-> op, n |-> n, outcome |-> outcome, by |-> 0]
CallBy(h, op, n, outcome) == [Call(op, n, outcome) EXCEPT !.by = h]

NoBorrowBuf == From_uninit(<<>>)
NoVec == [buf |-> <<>>, len |-> 0]

\* whether a BorrowCursor / VecCursor is alive
HasCursor == which = "BorrowBuf" /\ cursors >= 1
HasVecCursor == which = "Vec" /\ Len(vcursors) >= 1
VecCursor_top == vcursors[Len(vcursors)]

\* What the borrows allow, with depth the number of live cursor handles.
\* unfilled(&'b mut self) borrows the buffer mutably for as long as the
\* cursor lives, so the buffer is usable only while no cursor is alive.
BorrowBuf_usable(depth) == depth = 0
Vec_usable(depth) == depth = 0

\* plone(&'c mut self) and clone(&'c mut self) reborrow the handle they are
\* called on for as long as the new handle lives, so of the live handles
\* 1..depth only the innermost is usable.
BorrowCursor_usable_while_reborrowed(depth, h) == h \in 1..depth
BorrowCursor_usable(depth, h) == h = depth
VecCursor_usable(depth, h) == h = depth

UsableCursors == {h \in 1..cursors : BorrowCursor_usable(cursors, h)}
UsableVecCursors ==
    {h \in 1..Len(vcursors) : VecCursor_usable(Len(vcursors), h)}

InitBorrowBuf ==
    /\ which = "BorrowBuf"
    /\ \E cap \in 0..MaxCap :
          \/ \E slice \in [1..cap -> Bytes] :
                /\ borrowbuf = From_slice(slice)
                /\ last = Call("from_slice", cap, "ok")
          \/ /\ borrowbuf = From_uninit(Fill(cap, Undef))
             /\ last = Call("from_uninit", cap, "ok")
    /\ cursors = 0
    /\ vec = NoVec
    /\ vcursors = <<>>

\* the Vec starts as Vec::with_capacity(cap): empty, nothing defined
InitVec ==
    /\ which = "Vec"
    /\ \E cap \in 0..MaxCap :
          /\ vec = [buf |-> Fill(cap, Undef), len |-> 0]
          /\ last = Call("with_capacity", cap, "ok")
    /\ vcursors = <<>>
    /\ borrowbuf = NoBorrowBuf
    /\ cursors = 0

Init == InitBorrowBuf \/ InitVec

UnchangedVec == UNCHANGED <<which, vec, vcursors>>
UnchangedBorrowBuf == UNCHANGED <<which, borrowbuf, cursors>>

\* ---- BorrowBuf: callable while no cursor borrows it

Unfilled ==
    /\ which = "BorrowBuf" /\ BorrowBuf_usable(cursors)
    /\ cursors' = 1
    /\ last' = Call("unfilled", 0, "ok")
    /\ UNCHANGED borrowbuf /\ UnchangedVec

Clear ==
    /\ which = "BorrowBuf" /\ BorrowBuf_usable(cursors)
    /\ borrowbuf' = BorrowBuf_clear(borrowbuf)
    /\ last' = Call("clear", 0, "ok")
    /\ UNCHANGED cursors /\ UnchangedVec

SetInit(n) ==
    /\ which = "BorrowBuf" /\ BorrowBuf_usable(cursors)
    /\ borrowbuf' = BorrowBuf_set_init(borrowbuf, n)
    /\ last' = Call("BorrowBuf::set_init", n, "ok")
    /\ UNCHANGED cursors /\ UnchangedVec

\* ---- BorrowCursor: callable on the innermost live cursor

Plone ==
    /\ HasCursor /\ cursors <= MaxClones
    /\ cursors' = cursors + 1
    /\ \E h \in UsableCursors : last' = CallBy(h, "plone", 0, "ok")
    /\ UNCHANGED borrowbuf /\ UnchangedVec

\* the innermost cursor goes out of scope
DropCursor ==
    /\ HasCursor
    /\ cursors' = cursors - 1
    /\ \E h \in UsableCursors : last' = CallBy(h, "drop", 0, "ok")
    /\ UNCHANGED borrowbuf /\ UnchangedVec

Advance(n) ==
    /\ HasCursor
    /\ \E o \in BorrowCursor_advance_outcomes(borrowbuf, n) :
          /\ borrowbuf' = IF o = "ok" THEN BorrowCursor_advance(borrowbuf, n)
                          ELSE borrowbuf
          /\ \E h \in UsableCursors : last' = CallBy(h, "advance", n, o)
    /\ UNCHANGED cursors /\ UnchangedVec

EnsureInit ==
    /\ HasCursor
    /\ borrowbuf' = BorrowCursor_ensure_init(borrowbuf)
    /\ \E h \in UsableCursors : last' = CallBy(h, "ensure_init", 0, BorrowCursor_ensure_init_outcome(borrowbuf))
    /\ UNCHANGED cursors /\ UnchangedVec

CursorSetInit(n) ==
    /\ HasCursor
    /\ borrowbuf' = BorrowCursor_set_init(borrowbuf, n)
    /\ \E h \in UsableCursors : last' = CallBy(h, "set_init", n, "ok")
    /\ UNCHANGED cursors /\ UnchangedVec

AppendData(data) ==
    /\ HasCursor
    /\ borrowbuf' = BorrowCursor_append(borrowbuf, data)
    /\ \E o \in BorrowCursor_append_outcomes(borrowbuf, data) :
          \E h \in UsableCursors : last' = CallBy(h, "append", Len(data), o)
    /\ UNCHANGED cursors /\ UnchangedVec

InitMutWrite(k, v) ==
    /\ HasCursor
    /\ borrowbuf' = BorrowCursor_init_mut_write(borrowbuf, k, v)
    /\ \E h \in UsableCursors : last' = CallBy(h, "init_mut", k, BorrowCursor_init_mut_write_outcome(borrowbuf, k))
    /\ UNCHANGED cursors /\ UnchangedVec

UninitMutWrite(k, v) ==
    /\ HasCursor
    /\ borrowbuf' = BorrowCursor_uninit_mut_write(borrowbuf, k, v)
    /\ \E h \in UsableCursors : last' = CallBy(h, "uninit_mut", k, BorrowCursor_uninit_mut_write_outcome(borrowbuf, k))
    /\ UNCHANGED cursors /\ UnchangedVec

AsMutWrite(k, v) ==
    /\ HasCursor
    /\ borrowbuf' = BorrowCursor_as_mut_write(borrowbuf, k, v)
    /\ \E h \in UsableCursors : last' = CallBy(h, "as_mut", k, BorrowCursor_as_mut_write_outcome(borrowbuf, k))
    /\ UNCHANGED cursors /\ UnchangedVec

\* read takes the cursor by value: the cursor is gone when it returns
Read(data) ==
    /\ HasCursor
    /\ borrowbuf' = read(borrowbuf, data)
    /\ cursors' = cursors - 1
    /\ \E h \in UsableCursors : last' = CallBy(h, "read", Len(data), read_outcome(borrowbuf, data))
    /\ UnchangedVec

\* read_buf takes the cursor by value, makes a plone of it for the first
\* read and gives the cursor itself to the second
ReadBuf(d1, d2) ==
    /\ HasCursor
    /\ borrowbuf' = read_buf(borrowbuf, d1, d2)
    /\ cursors' = cursors - 1
    /\ \E h \in UsableCursors :
          last' = CallBy(h, "read_buf", Len(d1) + Len(d2),
                         read_buf_outcome(borrowbuf, d1, d2))
    /\ UnchangedVec

\* ---- Vec<u8> as OwnedBuf: callable while no cursor borrows it

VecUnfilled ==
    /\ which = "Vec" /\ Vec_usable(Len(vcursors))
    /\ vcursors' = <<Vec_unfilled(vec)>>
    /\ last' = Call("unfilled", 0, "ok")
    /\ UNCHANGED vec /\ UnchangedBorrowBuf

VecClear ==
    /\ which = "Vec" /\ Vec_usable(Len(vcursors))
    /\ vec' = Vec_clear(vec)
    /\ last' = Call("clear", 0, "ok")
    /\ UNCHANGED vcursors /\ UnchangedBorrowBuf

VecSetInit(n) ==
    /\ which = "Vec" /\ Vec_usable(Len(vcursors))
    /\ vec' = Vec_set_init(vec, n)
    /\ last' = Call("Vec::set_init", n, "ok")
    /\ UNCHANGED vcursors /\ UnchangedBorrowBuf

VecReserve(additional) ==
    /\ which = "Vec" /\ Vec_usable(Len(vcursors))
    /\ vec' = Vec_reserve(vec, additional)
    /\ last' = Call("reserve", additional, "ok")
    /\ UNCHANGED vcursors /\ UnchangedBorrowBuf

\* ---- VecCursor: callable on the innermost live cursor

VecClone ==
    /\ HasVecCursor /\ Len(vcursors) <= MaxClones
    /\ vcursors' = Append(vcursors, VecCursor_clone(VecCursor_top))
    /\ \E h \in UsableVecCursors : last' = CallBy(h, "clone", 0, "ok")
    /\ UNCHANGED vec /\ UnchangedBorrowBuf

\* the innermost cursor goes out of scope; the one it was cloned from keeps
\* its own fields
VecDropCursor ==
    /\ HasVecCursor
    /\ vcursors' = SubSeq(vcursors, 1, Len(vcursors) - 1)
    /\ \E h \in UsableVecCursors : last' = CallBy(h, "drop", 0, "ok")
    /\ UNCHANGED vec /\ UnchangedBorrowBuf

VecAdvance(n) ==
    /\ HasVecCursor
    /\ vec' = VecCursor_advance(vec, n)
    /\ \E h \in UsableVecCursors : last' = CallBy(h, "advance", n, "ok")
    /\ UNCHANGED vcursors /\ UnchangedBorrowBuf

VecEnsureInit ==
    /\ HasVecCursor
    /\ vec' = VecCursor_ensure_init_vec(vec, VecCursor_top)
    /\ vcursors' = [vcursors EXCEPT ![Len(vcursors)] =
                        VecCursor_ensure_init(vec, VecCursor_top)]
    /\ \E h \in UsableVecCursors : last' = CallBy(h, "ensure_init", 0, VecCursor_ensure_init_outcome(vec, VecCursor_top))
    /\ UnchangedBorrowBuf

VecCursorSetInit(n) ==
    /\ HasVecCursor
    /\ vcursors' = [vcursors EXCEPT ![Len(vcursors)] =
                        VecCursor_set_init(VecCursor_top, n)]
    /\ \E h \in UsableVecCursors : last' = CallBy(h, "set_init", n, "ok")
    /\ UNCHANGED vec /\ UnchangedBorrowBuf

VecAppendData(data) ==
    /\ HasVecCursor
    /\ vec' = VecCursor_append(vec, data)
    /\ \E h \in UsableVecCursors : last' = CallBy(h, "append", Len(data), VecCursor_append_outcome(vec, data))
    /\ UNCHANGED vcursors /\ UnchangedBorrowBuf

\* The counts a caller passes are bounded by Limit, and so are the counters
\* they produce.  Each of the two reads of read_buf stores at most one byte.  Vec::set_len is the standard library's: its effect past the
\* capacity is not defined by this crate, so the Vec's length stays within
\* its capacity.
Datas == SeqsUpTo(Bytes, Limit)

Next ==
    \/ Unfilled
    \/ Clear
    \/ \E n \in 0..Limit : SetInit(n)
    \/ Plone
    \/ DropCursor
    \/ \E n \in (0 - Limit)..Limit :
          /\ 0 <= borrowbuf.filled + n /\ borrowbuf.filled + n <= Limit
          /\ Advance(n)
    \/ EnsureInit
    \/ \E n \in 0..Limit : borrowbuf.filled + n <= Limit /\ CursorSetInit(n)
    \/ \E data \in Datas : AppendData(data)
    \/ \E k \in 0..MaxCap, v \in Bytes : InitMutWrite(k, v)
    \/ \E k \in 0..MaxCap, v \in Slot : UninitMutWrite(k, v)
    \/ \E k \in 0..MaxCap, v \in Slot : AsMutWrite(k, v)
    \/ \E data \in Datas : Read(data)
    \/ \E d1, d2 \in {d \in Datas : Len(d) <= 1} : ReadBuf(d1, d2)
    \/ VecUnfilled
    \/ VecClear
    \/ \E n \in 0..Limit : n <= Vec_capacity(vec) /\ VecSetInit(n)
    \/ \E n \in 1..MaxCap : vec.len + n <= MaxCap /\ VecReserve(n)
    \/ VecClone
    \/ VecDropCursor
    \/ \E n \in 0..Limit : vec.len + n <= Vec_capacity(vec) /\ VecAdvance(n)
    \/ VecEnsureInit
    \/ \E n \in 0..Limit : VecCursorSetInit(n)
    \/ \E data \in Datas : VecAppendData(data)

Spec == Init /\ [][Next]_vars

---------------------------------------------------------------------------
\* Properties.

Ordered(s) ==
    /\ 0 <= s.filled
    /\ s.filled <= s.initialized
    /\ s.initialized <= BorrowBuf_capacity(s)

\* C1, as stated: every reachable state of a BorrowBuf satisfies
\* 0 <= filled <= initialized <= capacity, whatever sequence of unfilled,
\* clear, BorrowBuf::set_init, advance, set_init, ensure_init and append led
\* to it.
C1_Ordered == Ordered(borrowbuf)

\* C1, amended: every reachable state satisfies 0 <= filled <= initialized;
\* both constructors also give initialized <= capacity, and from a state with
\* initialized <= capacity every operation keeps it so, provided the counts of
\* the unchecked calls stay within the buffer: n <= capacity() for
\* BorrowBuf::set_init, n <= cursor.capacity() for advance and the cursor's
\* set_init.
C1_OrderedWithinCapacity ==
    LET s == borrowbuf
    IN  /\ 0 <= s.filled /\ s.filled <= s.initialized
        /\ last.op \in {"from_slice", "from_uninit"} => Ordered(s)
        /\ Ordered(s) =>
              /\ Ordered(BorrowBuf_clear(s))
              /\ \A n \in 0..BorrowBuf_capacity(s) : Ordered(BorrowBuf_set_init(s, n))
              /\ \A n \in 0..BorrowCursor_capacity(s) :
                    /\ Ordered(BorrowCursor_advance(s, n))
                    /\ Ordered(BorrowCursor_set_init(s, n))
              /\ Ordered(BorrowCursor_ensure_init(s))
              /\ \A data \in Datas : Ordered(BorrowCursor_append(s, data))

\* C1 witness: an advance within the capacity has moved filled up to
\* initialized, short of the capacity.
C1_Witness ==
    /\ which = "BorrowBuf" /\ last.op = "advance" /\ last.n >= 1
    /\ borrowbuf.filled = borrowbuf.initialized
    /\ borrowbuf.initialized < BorrowBuf_capacity(borrowbuf)

\* C2: initialized never decreases: every step of every sequence of
\* operations (failing appends included) leaves init_len() at or above its
\* value before the step.
C2_InitializedNeverDecreases ==
    [][BorrowBuf_init_len(borrowbuf') >= BorrowBuf_init_len(borrowbuf)]_vars

\* C2 witness: BorrowBuf::set_init was called with fewer bytes than are
\* initialized.
C2_Witness ==
    /\ which = "BorrowBuf" /\ last.op = "BorrowBuf::set_init"
    /\ last.n < borrowbuf.initialized

\* C3: append(data) with capacity() >= len(data) succeeds; len() grows by
\* exactly len(data), filled() is the old filled() followed by data, and
\* init_len() >= old filled + len(data).
C3_AppendWithinCapacity ==
    HasCursor =>
        LET s == borrowbuf
        IN  \A data \in Datas :
                (BorrowCursor_capacity_ok(s) /\ BorrowCursor_capacity(s) >= Len(data)) =>
                    LET t == BorrowCursor_append(s, data)
                    IN  /\ BorrowCursor_append_outcomes(s, data) = {"ok"}
                        /\ BorrowBuf_len(t) = BorrowBuf_len(s) + Len(data)
                        /\ BorrowBuf_filled_ok(t)
                        /\ BorrowBuf_filled(t) = BorrowBuf_filled(s) \o data
                        /\ BorrowBuf_init_len(t) >= s.filled + Len(data)

\* C3 witness: an append of at least one byte succeeded behind bytes that
\* were filled before it.
C3_Witness ==
    /\ which = "BorrowBuf" /\ last.op = "append" /\ last.outcome = "ok"
    /\ last.n >= 1 /\ borrowbuf.filled > last.n

\* C4: append(data) with capacity() < len(data) fails with the capacity
\* assertion and changes nothing: counters and every stored byte are as
\* before, for BorrowCursor::append and for VecCursor::append.
C4_AppendBeyondCapacity ==
    /\ HasCursor =>
          LET s == borrowbuf
          IN  \A data \in Datas :
                  (BorrowCursor_capacity_ok(s) /\ BorrowCursor_capacity(s) < Len(data)) =>
                      /\ BorrowCursor_append_outcomes(s, data) = {"assert"}
                      /\ BorrowCursor_append(s, data) = s
    /\ HasVecCursor =>
          \A data \in Datas :
              VecCursor_capacity(vec) < Len(data) =>
                  /\ VecCursor_append_outcome(vec, data) = "assert"
                  /\ VecCursor_append(vec, data) = vec

\* C4 witness: an append failed its capacity assertion on a buffer that had
\* room left, but not enough.
C4_Witness ==
    /\ which = "BorrowBuf" /\ last.op = "append" /\ last.outcome = "assert"
    /\ borrowbuf.filled < BorrowBuf_capacity(borrowbuf)

\* C5: clear() sets filled to 0 and leaves initialized, capacity and the
\* storage as they were; filled() is empty right after, and the next cursor's
\* capacity() is the buffer's capacity.
C5_Clear ==
    (which = "BorrowBuf" /\ cursors = 0) =>
        LET s == borrowbuf
            t == BorrowBuf_clear(s)
        IN  /\ BorrowBuf_len(t) = 0
            /\ BorrowBuf_init_len(t) = BorrowBuf_init_len(s)
            /\ BorrowBuf_capacity(t) = BorrowBuf_capacity(s)
            /\ t.buf = s.buf
            /\ BorrowBuf_filled_ok(t) /\ BorrowBuf_filled(t) = <<>>
            /\ BorrowCursor_capacity_ok(t)
            /\ BorrowCursor_capacity(t) = BorrowBuf_capacity(s)

\* C5 witness: clear() has run on a buffer that holds initialized bytes.
C5_Witness ==
    /\ which = "BorrowBuf" /\ last.op = "clear"
    /\ borrowbuf.filled = 0 /\ borrowbuf.initialized >= 1

\* C6, as stated: from any reachable state one ensure_init() leaves
\* initialized == capacity and every byte in [filled, capacity) defined,
\* with filled and the bytes in [0, old initialized) unchanged, and a second
\* call changes nothing.
C6_EnsureInit ==
    [][(which = "BorrowBuf" /\ last'.op = "ensure_init") =>
        LET s == borrowbuf
            t == borrowbuf'
            cap == BorrowBuf_capacity(s)
        IN  /\ t.initialized = cap
            /\ t.filled = s.filled
            /\ Slice(t.buf, 0, s.initialized) = Slice(s.buf, 0, s.initialized)
            /\ Defined(Slice(t.buf, t.filled, cap))
            /\ BorrowCursor_ensure_init(t) = t]_vars

\* C6, amended: called with initialized <= capacity, ensure_init() succeeds
\* and leaves initialized == capacity, every byte in [old initialized,
\* capacity) defined (so every byte in [filled, capacity) is defined when
\* those in [filled, old initialized) were), filled and the bytes in
\* [0, old initialized) unchanged; called with initialized > capacity it
\* panics and changes nothing.  Either way a second call changes nothing.
C6_EnsureInitWithinCapacity ==
    HasCursor =>
        LET s == borrowbuf
            t == BorrowCursor_ensure_init(s)
            cap == BorrowBuf_capacity(s)
        IN  /\ BorrowCursor_ensure_init(t) = t
            /\ s.initialized <= cap =>
                  /\ BorrowCursor_ensure_init_outcome(s) = "ok"
                  /\ BorrowCursor_ensure_init_outcome(t) = "ok"
                  /\ t.initialized = cap
                  /\ t.filled = s.filled
                  /\ Slice(t.buf, 0, s.initialized) = Slice(s.buf, 0, s.initialized)
                  /\ Defined(Slice(t.buf, s.initialized, cap))
                  /\ Defined(Slice(s.buf, s.filled, s.initialized)) =>
                        Defined(Slice(t.buf, t.filled, cap))
            /\ s.initialized > cap =>
                  /\ BorrowCursor_ensure_init_outcome(s) = "index"
                  /\ t = s

\* C6 witness: ensure_init() has succeeded on a cursor with room left, and
\* the whole of that room is defined.
C6_Witness ==
    /\ which = "BorrowBuf" /\ last.op = "ensure_init" /\ last.outcome = "ok"
    /\ borrowbuf.filled >= 1
    /\ borrowbuf.filled < BorrowBuf_capacity(borrowbuf)
    /\ borrowbuf.initialized = BorrowBuf_capacity(borrowbuf)
    /\ Defined(Slice(borrowbuf.buf, borrowbuf.filled, BorrowBuf_capacity(borrowbuf)))

\* C7: set_init changes only initialized and never lowers it.
\* BorrowBuf::set_init(n) does nothing when n <= initialized and otherwise
\* sets initialized = n; BorrowCursor::set_init(n) sets initialized to the
\* larger of initialized and filled + n; filled and the bytes stay.
C7_SetInit ==
    LET s == borrowbuf
    IN  /\ (which = "BorrowBuf" /\ cursors = 0) =>
              \A n \in 0..Limit :
                  LET t == BorrowBuf_set_init(s, n)
                  IN  /\ n <= s.initialized => t = s
                      /\ n > s.initialized => t.initialized = n
                      /\ t.filled = s.filled /\ t.buf = s.buf
        /\ HasCursor =>
              \A n \in 0..Limit :
                  LET t == BorrowCursor_set_init(s, n)
                  IN  /\ s.filled + n <= s.initialized => t = s
                      /\ s.filled + n > s.initialized => t.initialized = s.filled + n
                      /\ t.initialized >= s.initialized
                      /\ t.filled = s.filled /\ t.buf = s.buf

\* C7 witness: the cursor's set_init has raised initialized to filled + n,
\* past a non-empty filled region.
C7_Witness ==
    /\ which = "BorrowBuf" /\ last.op = "set_init" /\ last.n >= 1
    /\ borrowbuf.filled >= 1
    /\ borrowbuf.initialized = borrowbuf.filled + last.n

\* C8: advance(n) with n <= cursor.capacity() commits exactly n bytes: len()
\* grows by n, the cursor's capacity() shrinks by n, and init_len() becomes
\* the larger of the old initialized and the new filled.  The len/capacity
\* part holds for VecCursor::advance too.
C8_Advance ==
    /\ (HasCursor /\ BorrowCursor_capacity_ok(borrowbuf)) =>
          LET s == borrowbuf
          IN  \A n \in 0..BorrowCursor_capacity(s) :
                  LET t == BorrowCursor_advance(s, n)
                  IN  /\ BorrowCursor_advance_outcome(s, n) = "ok"
                      /\ BorrowBuf_len(t) = BorrowBuf_len(s) + n
                      /\ BorrowCursor_capacity_ok(t)
                      /\ BorrowCursor_capacity(t) = BorrowCursor_capacity(s) - n
                      /\ BorrowBuf_init_len(t) =
                            (IF s.initialized >= s.filled + n
                             THEN s.initialized ELSE s.filled + n)
                      /\ BorrowBuf_init_len(t) >= BorrowBuf_len(t)
                      /\ t.buf = s.buf
    /\ HasVecCursor =>
          \A n \in 0..VecCursor_capacity(vec) :
              LET w == VecCursor_advance(vec, n)
              IN  /\ Vec_len(w) = Vec_len(vec) + n
                  /\ VecCursor_capacity(w) = VecCursor_capacity(vec) - n

\* C8 witness: an advance within the capacity has committed bytes and left
\* initialized ahead of filled.
C8_Witness ==
    /\ which = "BorrowBuf" /\ last.op = "advance" /\ last.n >= 1
    /\ borrowbuf.filled < borrowbuf.initialized
    /\ borrowbuf.initialized <= BorrowBuf_capacity(borrowbuf)

\* C9, as stated: advance(n) with filled + n above initialized (or above the
\* capacity) aborts instead of updating the state, and never leaves
\* filled > initialized or filled > capacity.
C9_AdvanceAborts ==
    [][(/\ which = "BorrowBuf" /\ last'.op = "advance"
        /\ \/ borrowbuf.filled + last'.n > borrowbuf.initialized
           \/ borrowbuf.filled + last'.n > BorrowBuf_capacity(borrowbuf)) =>
        /\ last'.outcome # "ok"
        /\ borrowbuf' = borrowbuf
        /\ borrowbuf'.filled <= borrowbuf'.initialized
        /\ borrowbuf'.filled <= BorrowBuf_capacity(borrowbuf')]_vars

\* C9, amended: advance checks nothing and never aborts.  advance(n) with
\* filled + n above initialized succeeds, adds n to filled and raises
\* initialized to the new filled, so filled <= initialized still holds;
\* filled <= capacity afterwards exactly when n <= capacity().  Only append
\* beyond the remaining capacity aborts, with the state unchanged.
C9_AdvanceUnchecked ==
    HasCursor =>
        LET s == borrowbuf
        IN  /\ \A n \in 0..Limit :
                  LET t == BorrowCursor_advance(s, n)
                  IN  /\ BorrowCursor_advance_outcome(s, n) = "ok"
                      /\ t.filled = s.filled + n
                      /\ t.filled <= t.initialized
                      /\ s.filled + n > s.initialized => t.initialized = s.filled + n
                      /\ (t.filled <= BorrowBuf_capacity(t)) <=>
                            (s.filled + n <= BorrowBuf_capacity(s))
            /\ \A data \in Datas :
                  (s.filled <= BorrowBuf_capacity(s)
                   /\ s.filled + Len(data) > BorrowBuf_capacity(s)) =>
                      /\ "ok" \notin BorrowCursor_append_outcomes(s, data)
                      /\ BorrowCursor_append(s, data) = s

\* C9 witness: an advance past the capacity has returned normally and left
\* filled above the capacity.
C9_Witness ==
    /\ which = "BorrowBuf" /\ last.op = "advance" /\ last.outcome = "ok"
    /\ borrowbuf.filled > BorrowBuf_capacity(borrowbuf)

\* C10: direct fill then commit.  On a BorrowBuf with filled == initialized,
\* storing n <= capacity() bytes at the start of as_mut() or of uninit_mut()
\* and then calling advance(n), with or without set_init(n) before it, makes
\* len() grow by n and the last n bytes of filled() the bytes stored, in order.
C10_DirectFill ==
    (HasCursor /\ borrowbuf.filled = borrowbuf.initialized
               /\ BorrowCursor_capacity_ok(borrowbuf)) =>
        LET s == borrowbuf
            Committed(t, data) ==
                /\ BorrowBuf_len(t) = BorrowBuf_len(s) + Len(data)
                /\ BorrowBuf_filled_ok(t)
                /\ BorrowBuf_filled(t) = BorrowBuf_filled(s) \o data
        IN  \A data \in Datas :
                Len(data) <= BorrowCursor_capacity(s) =>
                    /\ read_outcome(s, data) = "ok"
                    /\ Committed(read(s, data), data)
                    /\ Committed(BorrowCursor_advance(uninit_mut_fill(s, data),
                                                      Len(data)), data)
                    /\ Committed(BorrowCursor_advance(
                                     BorrowCursor_set_init(uninit_mut_fill(s, data),
                                                           Len(data)),
                                     Len(data)), data)

\* C10 witness: read has stored two different bytes through as_mut() and
\* committed them, and filled() shows them in the order stored.
C10_Witness ==
    /\ which = "BorrowBuf" /\ last.op = "read" /\ last.outcome = "ok"
    /\ last.n = 2 /\ borrowbuf.filled = 2
    /\ BorrowBuf_filled(borrowbuf) = <<1, 0>>

---------------------------------------------------------------------------
\* the number of live cursor handles over the buffer of this behaviour
Depth == IF which = "Vec" THEN Len(vcursors) ELSE cursors

\* the calls made on the buffer itself, and those made through a cursor
BufferOps == {"unfilled", "clear", "BorrowBuf::set_init", "Vec::set_init",
              "reserve"}
CursorOps == {"plone", "clone", "drop", "advance", "ensure_init", "set_init",
              "append", "init_mut", "uninit_mut", "as_mut", "read", "read_buf"}

---------------------------------------------------------------------------
\* C12: for the Vec-backed OwnedBuf, clear() empties the filled part and
\* leaves the number of initialized bytes alone: init_len() after clear()
\* equals init_len() before it, from any state (checked here from the states
\* whose filled bytes are all defined, the ones a caller who keeps the unsafe
\* contracts reaches).
C12_ClearKeepsInitLen ==
    [][ (which = "Vec" /\ last'.op = "clear" /\ Defined(Vec_filled(vec))) =>
            /\ Vec_len(vec') = 0
            /\ Vec_init_len(vec') = Vec_init_len(vec)
      ]_vars

---------------------------------------------------------------------------
---------------------------------------------------------------------------
\* the count a step adds to the store's length through a cursor
Committed_n == IF last'.op \in {"advance", "append"} /\ last'.outcome = "ok"
               THEN last'.n ELSE 0

\* C14: written() of a VecCursor is the store's current length minus its
\* length when unfilled() made the cursor, i.e. the total of the n passed to
\* advance and append since then.  written() is 0 right after unfilled();
\* every advance(n) and every successful append of n bytes, through whichever
\* handle, adds n and nothing else changes it; a clone starts with the
\* written() of the cursor it was made from, so it counts from where the
\* original was made, and when the clone is gone the original's written()
\* includes what the clone committed.
C14_Written ==
    [][ which = "Vec" =>
          /\ last'.op = "unfilled" =>
                VecCursor_written(vec', vcursors'[1]) = 0
          /\ (HasVecCursor /\ Len(vcursors') >= 1) =>
                /\ VecCursor_written(vec', vcursors'[Len(vcursors')]) =
                       VecCursor_written(vec, VecCursor_top) + Committed_n
                /\ \A i \in 1..Len(vcursors') :
                       /\ vcursors'[i].start = vcursors'[1].start
                       /\ VecCursor_written(vec', vcursors'[i]) =
                              Vec_len(vec') - vcursors'[1].start
      ]_vars

\* C14 witness: a clone has just been made from a cursor that had already
\* committed a byte, and the clone's written() counts that byte.
C14_Witness ==
    /\ which = "Vec" /\ last.op = "clone" /\ Len(vcursors) = 2
    /\ VecCursor_written(vec, VecCursor_top) = 1
    /\ VecCursor_top.start = 0

---------------------------------------------------------------------------
\* A Vec store filled only through its cursors: unfilled(), append, advance
\* within the capacity, ensure_init, and the cursor going out of scope.
\* Neither set_init nor any write through a view occurs.
NextVecFill ==
    \/ VecUnfilled
    \/ VecDropCursor
    \/ \E n \in 0..Limit : vec.len + n <= Vec_capacity(vec) /\ VecAdvance(n)
    \/ VecEnsureInit
    \/ \E data \in Datas : VecAppendData(data)

SpecVecFill == InitVec /\ [][NextVecFill]_vars

\* the cursor's views stay inside the spare capacity and init_ref() holds
\* defined bytes only
VecCursor_views_sound(v, c) ==
    /\ c.initialized <= VecCursor_capacity(v)
    /\ VecCursor_init_ref_ok(v, c)
    /\ VecCursor_uninit_mut_ok(v, c)
    /\ Defined(VecCursor_init_ref(v, c))
    /\ VecCursor_init_ref(v, c) \o VecCursor_uninit_mut(v, c) =
           spare_capacity_mut(v)
    /\ VecCursor_ensure_init_outcome(v, c) = "ok"

\* C15: for a VecCursor made by unfilled() on a store of any length within
\* its capacity, after any sequence of append, advance within the capacity
\* and ensure_init: init_ref() and init_mut() show defined bytes only,
\* init_ref() and uninit_mut() together are exactly the capacity() spare
\* bytes, and neither a view nor a repeated ensure_init() indexes out of
\* bounds, i.e. the cursor's initialized count never exceeds
\* capacity - len.
C15_VecCursorViews ==
    HasVecCursor => VecCursor_views_sound(vec, VecCursor_top)

---------------------------------------------------------------------------
\* A BorrowBuf used through its safe operations only: either constructor,
\* unfilled, clear, ensure_init, append, stores of bytes through init_mut(),
\* stores and de-initialisations through uninit_mut() (each at an index
\* inside the view), and the cursor going out of scope.  The read-only
\* operations are evaluated in every state by C16_SafeOperations.
NextSafe ==
    \/ Unfilled
    \/ Clear
    \/ DropCursor
    \/ EnsureInit
    \/ \E data \in Datas : AppendData(data)
    \/ \E k \in 0..MaxCap, v \in Bytes :
          /\ BorrowCursor_init_mut_write_outcome(borrowbuf, k) = "ok"
          /\ InitMutWrite(k, v)
    \/ \E k \in 0..MaxCap, v \in Slot :
          /\ BorrowCursor_uninit_mut_write_outcome(borrowbuf, k) = "ok"
          /\ UninitMutWrite(k, v)

SpecSafe == InitBorrowBuf /\ [][NextSafe]_vars

\* C16: with the safe operations of BorrowBuf and BorrowCursor only, in any
\* order, every storage slot below initialized holds a defined byte, the
\* counters stay ordered (filled <= initialized <= capacity), and no operation
\* fails other than append's capacity assertion: capacity, filled, init_ref,
\* init_mut, uninit_mut and ensure_init all succeed in every state, and
\* append ends normally or with the assertion.
C16_SafeOperations ==
    LET s == borrowbuf IN
    /\ Ordered(s)
    /\ Defined(Slice(s.buf, 0, s.initialized))
    /\ BorrowBuf_filled_ok(s) /\ Defined(BorrowBuf_filled(s))
    /\ BorrowCursor_capacity_ok(s)
    /\ BorrowCursor_init_ref_ok(s) /\ Defined(BorrowCursor_init_ref(s))
    /\ BorrowCursor_uninit_mut_ok(s)
    /\ BorrowCursor_ensure_init_outcome(s) = "ok"
    /\ \A data \in Datas :
          BorrowCursor_append_outcomes(s, data) =
              IF Len(data) <= BorrowCursor_capacity(s) THEN {"ok"}
              ELSE {"assert"}
    /\ last.outcome = "ok" \/ (last.op = "append" /\ last.outcome = "assert")

\* C16 witness: after an append, a store through uninit_mut() has landed in
\* the slot just above initialized, and the slot below initialized is defined.
C16_Witness ==
    /\ HasCursor /\ last.op = "uninit_mut" /\ last.n = 0
    /\ borrowbuf.initialized = 1 /\ borrowbuf.filled = 1
    /\ borrowbuf.buf = <<0, 1>>

---------------------------------------------------------------------------
\* C17: for BorrowBuf, filled decreases only through clear(): every other
\* operation (BorrowBuf::set_init, advance, set_init, ensure_init, append,
\* plone, the views) leaves filled unchanged or increases it, and clear()
\* leaves initialized fixed (checked here from the states with
\* filled <= initialized <= capacity).
C17_FilledDecreasesOnlyByClear ==
    [][ (which = "BorrowBuf" /\ Ordered(borrowbuf)) =>
          /\ last'.op # "clear" => borrowbuf'.filled >= borrowbuf.filled
          /\ last'.op = "clear" =>
                borrowbuf'.initialized = borrowbuf.initialized
      ]_vars

\* C17 as amended: filled decreases only through clear(), or through an
\* advance(n) whose usize addition filled + n overflows in a build without
\* overflow checks (filled wraps around; with overflow checks the call
\* panics and changes nothing); every other call leaves filled unchanged or
\* increases it, advance(n) without overflow adds n, and clear() leaves
\* initialized fixed.
C17_FilledDecreasesByClearOrWrap ==
    [][ which = "BorrowBuf" =>
          /\ (last'.op # "clear" /\ ~(last'.op = "advance" /\ last'.n < 0)) =>
                borrowbuf'.filled >= borrowbuf.filled
          /\ (last'.op = "advance" /\ last'.n >= 0) =>
                borrowbuf'.filled = borrowbuf.filled + last'.n
          /\ (last'.op = "advance" /\ last'.outcome = "overflow") =>
                borrowbuf' = borrowbuf
          /\ last'.op = "clear" =>
                /\ borrowbuf'.filled = 0
                /\ borrowbuf'.initialized = borrowbuf.initialized
      ]_vars

\* C17 witness: a second advance through the cursor has run, without
\* overflow, on a buffer that was already part filled, and filled has grown.
C17_Witness ==
    /\ which = "BorrowBuf" /\ last.op = "advance" /\ last.outcome = "ok"
    /\ last.n = 1 /\ borrowbuf.filled = 2 /\ borrowbuf.initialized = 2
    /\ BorrowBuf_capacity(borrowbuf) = 2

---------------------------------------------------------------------------
\* len() and the cursor's capacity() of the buffer of this behaviour
Buf_len == IF which = "Vec" THEN Vec_len(vec) ELSE BorrowBuf_len(borrowbuf)
Cursor_capacity ==
    IF which = "Vec" THEN VecCursor_capacity(vec)
    ELSE Len(borrowbuf.buf) - borrowbuf.filled

\* C18: a clone shares the counters of the cursor it was made from.  Making
\* a plone / clone and dropping it leave the buffer as it is; advance(n)
\* (without overflow) and a successful append of n bytes, through the
\* original or through a clone, add n to the one len() of the buffer and take
\* n from capacity(); so after clone.advance(a) and then, the clone gone,
\* original.advance(b), len() is the old len() + a + b and the original's
\* capacity() has shrunk by a + b.  tests::read_buf, which reads once through
\* a plone and once through the cursor itself, commits the bytes of both.
C18_CloneSharesCounters ==
    [][ /\ last'.op \in {"plone", "clone", "drop"} =>
              (borrowbuf' = borrowbuf /\ vec' = vec)
        /\ (last'.op \in {"advance", "append", "read_buf"}
               /\ last'.outcome = "ok" /\ last'.n >= 0) =>
              /\ Buf_len' = Buf_len + last'.n
              /\ Cursor_capacity' = Cursor_capacity - last'.n
      ]_vars

\* C18 witness: read_buf has stored and committed one byte through a plone
\* and then a different byte through the cursor itself; both are in filled(),
\* in that order.
C18_Witness ==
    /\ which = "BorrowBuf" /\ last.op = "read_buf" /\ last.outcome = "ok"
    /\ last.n = 2 /\ borrowbuf.filled = 2
    /\ BorrowBuf_filled(borrowbuf) = <<0, 1>>

---------------------------------------------------------------------------
\* The two implementations side by side: a BorrowBuf over undefined storage
\* and an empty Vec of the same capacity, given the same calls.  Counts stay
\* within the capacity of both and the Vec does not grow.

InitLockstep ==
    /\ which = "lockstep"
    /\ \E cap \in 0..MaxCap :
          /\ borrowbuf = From_uninit(Fill(cap, Undef))
          /\ vec = [buf |-> Fill(cap, Undef), len |-> 0]
          /\ last = Call("with_capacity", cap, "ok")
    /\ cursors = 0
    /\ vcursors = <<>>

\* a cursor is alive on both sides
BothCursors == which = "lockstep" /\ cursors = 1 /\ Len(vcursors) = 1
\* n fits the cursor capacity of both sides
FitsBoth(n) ==
    /\ BorrowCursor_capacity_ok(borrowbuf)
    /\ n <= BorrowCursor_capacity(borrowbuf)
    /\ n <= VecCursor_capacity(vec)

BothUnfilled ==
    /\ which = "lockstep"
    /\ BorrowBuf_usable(cursors) /\ Vec_usable(Len(vcursors))
    /\ cursors' = 1
    /\ vcursors' = <<Vec_unfilled(vec)>>
    /\ last' = Call("unfilled", 0, "ok")
    /\ UNCHANGED <<which, borrowbuf, vec>>

BothDropCursor ==
    /\ BothCursors
    /\ cursors' = 0
    /\ vcursors' = <<>>
    /\ last' = CallBy(1, "drop", 0, "ok")
    /\ UNCHANGED <<which, borrowbuf, vec>>

BothClear ==
    /\ which = "lockstep"
    /\ BorrowBuf_usable(cursors) /\ Vec_usable(Len(vcursors))
    /\ borrowbuf' = BorrowBuf_clear(borrowbuf)
    /\ vec' = Vec_clear(vec)
    /\ last' = Call("clear", 0, "ok")
    /\ UNCHANGED <<which, cursors, vcursors>>

BothSetInit(n) ==
    /\ which = "lockstep"
    /\ BorrowBuf_usable(cursors) /\ Vec_usable(Len(vcursors))
    /\ n <= BorrowBuf_capacity(borrowbuf) /\ n <= Vec_capacity(vec)
    /\ borrowbuf' = BorrowBuf_set_init(borrowbuf, n)
    /\ vec' = Vec_set_init(vec, n)
    /\ last' = Call("set_init", n, "ok")
    /\ UNCHANGED <<which, cursors, vcursors>>

BothAppend(data) ==
    /\ BothCursors /\ FitsBoth(Len(data))
    /\ borrowbuf' = BorrowCursor_append(borrowbuf, data)
    /\ vec' = VecCursor_append(vec, data)
    /\ last' = CallBy(1, "append", Len(data), VecCursor_append_outcome(vec, data))
    /\ UNCHANGED <<which, cursors, vcursors>>

BothAdvance(n) ==
    /\ BothCursors /\ FitsBoth(n)
    /\ borrowbuf' = BorrowCursor_advance(borrowbuf, n)
    /\ vec' = VecCursor_advance(vec, n)
    /\ last' = CallBy(1, "advance", n, BorrowCursor_advance_outcome(borrowbuf, n))
    /\ UNCHANGED <<which, cursors, vcursors>>

BothCursorSetInit(n) ==
    /\ BothCursors /\ FitsBoth(n)
    /\ borrowbuf' = BorrowCursor_set_init(borrowbuf, n)
    /\ vcursors' = <<VecCursor_set_init(VecCursor_top, n)>>
    /\ last' = CallBy(1, "set_init", n, "ok")
    /\ UNCHANGED <<which, cursors, vec>>

\* the outcome recorded is the Vec side's; the BorrowBuf side cannot fail
\* here because its counters stay within the capacity
BothEnsureInit ==
    /\ BothCursors
    /\ borrowbuf' = BorrowCursor_ensure_init(borrowbuf)
    /\ vec' = VecCursor_ensure_init_vec(vec, VecCursor_top)
    /\ vcursors' = <<VecCursor_ensure_init(vec, VecCursor_top)>>
    /\ last' = CallBy(1, "ensure_init", 0,
                      VecCursor_ensure_init_outcome(vec, VecCursor_top))
    /\ UNCHANGED <<which, cursors>>

NextLockstep ==
    \/ BothUnfilled
    \/ BothDropCursor
    \/ BothClear
    \/ \E n \in 0..MaxCap : BothSetInit(n)
    \/ \E data \in Datas : BothAppend(data)
    \/ \E n \in 0..MaxCap : BothAdvance(n)
    \/ \E n \in 0..MaxCap : BothCursorSetInit(n)
    \/ BothEnsureInit

SpecLockstep == InitLockstep /\ [][NextLockstep]_vars

\* C19: the Vec-backed adapter follows the contract of BorrowBuf and
\* BorrowCursor.  From an empty Vec and an undefined BorrowBuf of the same
\* capacity, the same calls on both (buffer-level set_init(n) with
\* n <= capacity and clear; cursor-level append, advance, set_init and
\* ensure_init within the capacity; no growth) give, after every step, equal
\* len(), equal filled() and equal cursor capacity(); in particular the
\* buffer-level set_init leaves len() at its value, as it does for BorrowBuf.
C19_Lockstep ==
    which = "lockstep" =>
        /\ Vec_len(vec) = BorrowBuf_len(borrowbuf)
        /\ Vec_filled(vec) = BorrowBuf_filled(borrowbuf)
        /\ VecCursor_capacity(vec) = BorrowCursor_capacity(borrowbuf)

=============================================================================
